---- MODULE Spec2Model ----
(***************************************************************************)
(* Model of bindings/vkdgen/vkdgen.py: the Vulkan D bindings generator.    *)
(*                                                                         *)
(* Text is modelled as TLA+ strings, character by character: the string    *)
(* helpers below follow the semantics of the Python str methods and of    *)
(* the regular expressions the generator uses.                             *)
(***************************************************************************)
EXTENDS Integers, Sequences, FiniteSets, TLC

(***************************************************************************)
(* Python str helpers                                                      *)
(***************************************************************************)

\* The character of s at position i (1-based), as a one-character string.
At(s, i) == SubSeq(s, i, i)

\* str.isspace for one character.
IsSpace(c) == c \in {" ", "\t", "\n", "\r", "\f"}

\* s[i-1:].startswith(p)
StartsWithAt(s, i, p) ==
    /\ i + Len(p) - 1 <= Len(s)
    /\ SubSeq(s, i, i + Len(p) - 1) = p

StartsWith(s, p) == StartsWithAt(s, 1, p)

EndsWith(s, p) ==
    /\ Len(p) <= Len(s)
    /\ SubSeq(s, Len(s) - Len(p) + 1, Len(s)) = p

\* " " * n
RECURSIVE Spaces(_)
Spaces(n) == IF n <= 0 THEN "" ELSE " " \o Spaces(n - 1)

\* str.replace(old, new): leftmost non-overlapping occurrences, old non-empty.
RECURSIVE ReplaceFrom(_, _, _, _)
ReplaceFrom(s, i, old, new) ==
    IF i > Len(s) THEN ""
    ELSE IF StartsWithAt(s, i, old)
         THEN new \o ReplaceFrom(s, i + Len(old), old, new)
         ELSE At(s, i) \o ReplaceFrom(s, i + 1, old, new)

Replace(s, old, new) == ReplaceFrom(s, 1, old, new)

\* Number of leading whitespace characters of s from position i on.
RECURSIVE SpaceRun(_, _)
SpaceRun(s, i) ==
    IF i <= Len(s) /\ IsSpace(At(s, i)) THEN 1 + SpaceRun(s, i + 1) ELSE 0

\* Length of s without its trailing whitespace.
RECURSIVE RStripLen(_, _)
RStripLen(s, n) ==
    IF n >= 1 /\ IsSpace(At(s, n)) THEN RStripLen(s, n - 1) ELSE n

\* str.rstrip()
RStrip(s) == SubSeq(s, 1, RStripLen(s, Len(s)))

\* str.lstrip()
LStrip(s) == SubSeq(s, SpaceRun(s, 1) + 1, Len(s))

\* str.strip()
Strip(s) == LStrip(RStrip(s))

\* '\n' not in s[i-1:j]
RECURSIVE NoNewline(_, _, _)
NoNewline(s, i, j) ==
    IF i > j THEN TRUE
    ELSE At(s, i) # "\n" /\ NoNewline(s, i + 1, j)

Max(a, b) == IF a >= b THEN a ELSE b

Min(a, b) == IF a <= b THEN a ELSE b

(***************************************************************************)
(* D specific utilities                                                    *)
(***************************************************************************)

NoMatch == [matched |-> FALSE, group |-> ""]

\* The tail shared by both patterns: "const" \s+ (.+) "\*" with the
\* star at position p.  \s+ is greedy and gives back only what (.+) needs
\* to be non-empty; "." does not match a newline.
ConstGroup(s, p) ==
    LET run == SpaceRun(s, 6)
        k   == Min(run, p - 7)
    IN  IF StartsWith(s, "const") /\ k >= 1 /\ NoNewline(s, 6 + k, p - 1)
        THEN [matched |-> TRUE, group |-> SubSeq(s, 6 + k, p - 1)]
        ELSE NoMatch

\* re.match(r"^const\s+(.+)\*\s*$", s): the star is the last character
\* before the trailing whitespace.
re_single_const(s) ==
    LET p == RStripLen(s, Len(s))
    IN  IF p >= 1 /\ At(s, p) = "*" THEN ConstGroup(s, p) ELSE NoMatch

\* re.match(r"^const\s+(.+)\*\s+const\*\s*$", s): "const*" ends the text
\* before the trailing whitespace, at least one whitespace precedes it, and
\* the star of the group is the last character before that whitespace.
re_double_const(s) ==
    LET e == RStripLen(s, Len(s))
        q == e - 5
        p == IF q >= 2 THEN RStripLen(s, q - 1) ELSE 0
    IN  IF /\ q >= 2
           /\ SubSeq(s, q, e) = "const*"
           /\ p >= 1
           /\ p < q - 1
           /\ At(s, p) = "*"
        THEN ConstGroup(s, p)
        ELSE NoMatch

\* A mutation of convertDTypeConst: the single-indirection pattern is tried
\* before the double-indirection one.
convertDTypeConst_SingleFirst(typ) ==
    IF re_single_const(typ).matched
    THEN "const(" \o re_single_const(typ).group \o ")*"
    ELSE IF re_double_const(typ).matched
         THEN "const(" \o re_double_const(typ).group \o "*)*"
         ELSE typ

convertDTypeConst(typ) ==
    IF re_double_const(typ).matched
    THEN "const(" \o re_double_const(typ).group \o "*)*"
    ELSE IF re_single_const(typ).matched
         THEN "const(" \o re_single_const(typ).group \o ")*"
         ELSE typ

\* makePart of makeDParamType; noneStr maps None to "", and an absent text
\* or tail is modelled as "".
makePart(part) ==
    Replace(Strip(Replace(part, "struct ", "")), "const", "const ")

\* The loop of makeDParamType over the children of the element.
RECURSIVE ParamTypeStr(_, _)
ParamTypeStr(children, i) ==
    IF i > Len(children) THEN ""
    ELSE (IF children[i].tag # "name" THEN makePart(children[i].text) ELSE "")
         \o makePart(children[i].tail)
         \o ParamTypeStr(children, i + 1)

makeDParamType(param) ==
    convertDTypeConst(
        Replace(makePart(param.text) \o ParamTypeStr(param.children, 1),
                "const *", "const*"))

dkeywords == {"module"}

mapDName(name) == IF name \in dkeywords THEN name \o "_" ELSE name

\* A <param> or <member> element: leading text, a <type> child with its
\* tail, a <name> child with its tail.
Elem(text, type, tail, name, nameTail) ==
    [text |-> text,
     children |-> << [tag |-> "type", text |-> type, tail |-> tail],
                     [tag |-> "name", text |-> name, tail |-> nameTail] >>]

(***************************************************************************)
(* More Python str helpers, used by the emitters                           *)
(***************************************************************************)

\* s * n
RECURSIVE Repeat(_, _)
Repeat(s, n) == IF n <= 0 THEN "" ELSE s \o Repeat(s, n - 1)

\* First position >= i of s holding whitespace, or Len(s) + 1.
RECURSIVE TokenEnd(_, _)
TokenEnd(s, i) ==
    IF i > Len(s) \/ IsSpace(At(s, i)) THEN i ELSE TokenEnd(s, i + 1)

\* str.split(): the whitespace-separated tokens of s.
RECURSIVE SplitFrom(_, _)
SplitFrom(s, i) ==
    LET b == i + SpaceRun(s, i)
        e == TokenEnd(s, b)
    IN  IF b > Len(s) THEN << >>
        ELSE << SubSeq(s, b, e - 1) >> \o SplitFrom(s, e)

Split(s) == SplitFrom(s, 1)

\* First position >= i of s holding a newline, or Len(s) + 1.
RECURSIVE LineEnd(_, _)
LineEnd(s, i) ==
    IF i > Len(s) \/ At(s, i) = "\n" THEN i ELSE LineEnd(s, i + 1)

\* str.splitlines(), for text whose only line boundary is "\n".
RECURSIVE SplitLinesFrom(_, _)
SplitLinesFrom(s, i) ==
    IF i > Len(s) THEN << >>
    ELSE << SubSeq(s, i, LineEnd(s, i) - 1) >>
         \o SplitLinesFrom(s, LineEnd(s, i) + 1)

SplitLines(s) == SplitLinesFrom(s, 1)

\* sep.join(parts)
RECURSIVE Join(_, _)
Join(parts, sep) ==
    IF parts = << >> THEN ""
    ELSE IF Len(parts) = 1 THEN parts[1]
         ELSE parts[1] \o sep \o Join(Tail(parts), sep)

\* "%s" % n for an integer n
RECURSIVE NatToStr(_)
NatToStr(n) ==
    IF n < 10 THEN SubSeq("0123456789", n + 1, n + 1)
    ELSE NatToStr(n \div 10) \o SubSeq("0123456789", (n % 10) + 1, (n % 10) + 1)

IntToStr(n) == IF n < 0 THEN "-" \o NatToStr(0 - n) ELSE NatToStr(n)

(***************************************************************************)
(* Sect and SourceFile                                                     *)
(***************************************************************************)

GLOBAL_DEF == 1
BASETYPE   == 2
CONST      == 3
HANDLE     == 4
FUNCPTR    == 5
ENUM       == 6
STRUCT     == 7
CMD        == 8

\* The members of Sect by value; iterating Sect goes in this order.
Sect == GLOBAL_DEF .. CMD

_one_indent_level == "    "

_Section(s) == [sect |-> s, lines |-> << >>, indent |-> 0]

\* SourceFile.__init__.  _section is always _sections[_sect] and is not
\* kept apart.  The field raised is the exception a call on the file has
\* thrown ("" for none): once it is set the rest of the handler is skipped.
SourceFile ==
    [_sections |-> [s \in Sect |-> _Section(s)],
     _sect     |-> GLOBAL_DEF,
     raised    |-> ""]

\* The state of the generator before beginFile has bound self.sf.
NoSourceFile == [_sections |-> << >>, _sect |-> 0, raised |-> ""]

\* section.setter
section_set(f, s) == IF f.raised # "" THEN f ELSE [f EXCEPT !._sect = s]

\* A mutation of indent: the level is not raised.
indent_NoOp(f) == f

indent(f) ==
    IF f.raised # "" THEN f
    ELSE [f EXCEPT !._sections[f._sect].indent = @ + 1]

\* unindent, with its assertion.
unindent(f) ==
    IF f.raised # "" THEN f
    ELSE IF ~(f._sections[f._sect].indent > 0)
         THEN [f EXCEPT !.raised = "AssertionError"]
         ELSE [f EXCEPT !._sections[f._sect].indent = @ - 1]

\* SourceFile.__call__ with the text fmt % args already formatted.
sf_call(f, text) ==
    IF f.raised # "" THEN f
    ELSE [f EXCEPT !._sections[f._sect].lines =
             Append(@, Repeat(_one_indent_level, f._sections[f._sect].indent)
                       \o text)]

\* Consecutive calls self.sf(l) for the lines l of texts.
RECURSIVE Emit(_, _)
Emit(f, texts) ==
    IF texts = << >> THEN f
    ELSE Emit(sf_call(f, Head(texts)), Tail(texts))

\* with self.sf.indent_block(): the calls self.sf(l) for the lines of texts.
\* __exit__ runs on every way out of the block.
indent_block(f, texts) ==
    IF f.raised # "" THEN f ELSE unindent(Emit(indent(f), texts))

\* The lines of sections s .. CMD in the order writeOut prints them.
RECURSIVE LinesFrom(_, _)
LinesFrom(f, s) ==
    IF s > CMD THEN << >>
    ELSE [i \in 1 .. Len(f._sections[s].lines) |->
             RStrip(f._sections[s].lines[i])]
         \o LinesFrom(f, s + 1)

\* A mutation of writeOut: the sections are printed in the order the
\* generator first selected them in beginFile.
writeOut_SelectionOrder(f) ==
    LET order == << GLOBAL_DEF, BASETYPE, FUNCPTR, CONST, HANDLE, ENUM,
                    STRUCT, CMD >>
        RECURSIVE From(_)
        From(k) ==
            IF k > Len(order) THEN << >>
            ELSE [i \in 1 .. Len(f._sections[order[k]].lines) |->
                     RStrip(f._sections[order[k]].lines[i])]
                 \o From(k + 1)
    IN  From(1)

\* SourceFile.writeOut: the lines printed to outFile.
writeOut(f) == LinesFrom(f, GLOBAL_DEF)

(***************************************************************************)
(* The entities the registry delivers, in the shape vk.xml gives them     *)
(***************************************************************************)

\* Deliveries over the life of one generator.
MaxDeliveries == 2

\* typeinfo for genType.  category "" stands for an element without the
\* category attribute; type is the text of the <type> child; elem is the
\* element: its text and its children, each with tag, text and tail.
TypeInfo(name, category, type, elem) ==
    [name |-> name, category |-> category, type |-> type, elem |-> elem]

NoElem == [text |-> "", children |-> << >>]

Child(tag, text, tail) == [tag |-> tag, text |-> text, tail |-> tail]

PlainTypeInfos ==
    { TypeInfo("int", "", "", NoElem),
      TypeInfo("VkFlags", "basetype", "uint32_t", NoElem),
      TypeInfo("VkInstance", "handle", "VK_DEFINE_HANDLE", NoElem) }

\* A struct: the children of elem are its <member> elements.
StructInfos ==
    { TypeInfo("VkApplicationInfo", "struct", "",
        [text |-> "",
         children |->
           << Elem("", "VkStructureType", " ", "sType", ""),
              Elem("const ", "void", "* ", "pNext", ""),
              Elem("", "uint32_t", " ", "module", "") >>]) }

\* Funcpointers: without parameters, with parameter lines of two tokens,
\* and with a parameter line of three tokens.
FuncPointerInfos ==
    { TypeInfo("PFN_vkVoidFunction", "funcpointer", "",
        [text |-> "typedef void (VKAPI_PTR *",
         children |-> << Child("name", "PFN_vkVoidFunction", ")(void);") >>]),
      TypeInfo("PFN_vkFreeFunction", "funcpointer", "",
        [text |-> "typedef void (VKAPI_PTR *",
         children |->
           << Child("name", "PFN_vkFreeFunction", ")(\n    "),
              Child("type", "void", "*  pUserData,\n    "),
              Child("type", "void", "*  pMemory);") >>]),
      TypeInfo("PFN_vkDebugReportCallbackEXT", "funcpointer", "",
        [text |-> "typedef VkBool32 (VKAPI_PTR *",
         children |->
           << Child("name", "PFN_vkDebugReportCallbackEXT", ")(\n    "),
              Child("type", "uint64_t", "  object,\n    const "),
              Child("type", "char", "*  pMessage);") >>]) }

TypeInfos == PlainTypeInfos \cup StructInfos \cup FuncPointerInfos

\* enuminfo for genEnum: the name and the strVal enumToValue gives.
EnumInfos ==
    { [name |-> "VK_WHOLE_SIZE", strVal |-> "(~0ULL)"],
      [name |-> "VK_ATTACHMENT_UNUSED", strVal |-> "(~0U)"] }

\* groupinfo for genGroup: the <enum> children in schema order, each with
\* its name and the numVal enumToValue gives.
GroupInfos ==
    { [name |-> "VkCullModeFlagBits",
       members |-> << [name |-> "VK_CULL_MODE_NONE", numVal |-> 0],
                      [name |-> "VK_CULL_MODE_FRONT_BIT", numVal |-> 1] >>],
      [name |-> "VkResult",
       members |-> << [name |-> "VK_ERROR_DEVICE_LOST", numVal |-> -4],
                      [name |-> "VK_SUCCESS", numVal |-> 0],
                      [name |-> "VK_NOT_READY", numVal |-> 1] >>] }

\* cmdinfo for genCmd: the text of proto/type and the <param> elements.
\* vkReleaseAll has no parameter; the parameter of vkQueueLike is named
\* after a dispatchable type.
CmdInfos ==
    { [name |-> "vkCreateInstance", type |-> "VkResult",
       params |->
         << Elem("const ", "VkInstanceCreateInfo", "* ", "pCreateInfo", ""),
            Elem("const ", "VkAllocationCallbacks", "* ", "pAllocator", ""),
            Elem("", "VkInstance", "* ", "pInstance", "") >>],
      [name |-> "vkDeviceWaitIdle", type |-> "VkResult",
       params |-> << Elem("", "VkDevice", " ", "device", "") >>],
      [name |-> "vkGetDeviceQueue", type |-> "void",
       params |->
         << Elem("", "VkDevice", " ", "device", ""),
            Elem("", "uint32_t", " ", "queueIndex", ""),
            Elem("", "VkQueue", "* ", "pQueue", "") >>],
      [name |-> "vkReleaseAll", type |-> "void", params |-> << >>],
      [name |-> "vkQueueLike", type |-> "void",
       params |-> << Elem("", "VkInstance", " ", "VkQueue", ""),
                     Elem("const ", "char", "* const* ", "ppNames", "") >>] }

(***************************************************************************)
(* DGenerator                                                              *)
(***************************************************************************)

VARIABLES
    sf,               \* self.sf, the SourceFile of the run
    outFile,          \* the lines the latest writeOut printed to outFile
    cmds,             \* self.cmds
    globalCmds,       \* self.globalCmds
    instanceCmdNames, \* self.instanceCmdNames
    instanceCmds,     \* self.instanceCmds
    deviceCmdNames,   \* self.deviceCmdNames
    deviceCmds,       \* self.deviceCmds
    phase,            \* "constructed", "running" (after beginFile), "finished"
    raised,           \* the exception that ended the run, "" for none
    lastOp,           \* the latest call of the registry and its argument
    nGenCmd,          \* the number of genCmd calls so far
    nDelivered,       \* the number of entities delivered so far
    rw                \* the latest call of makeDParamType and its result

vars == << sf, outFile, cmds, globalCmds, instanceCmdNames, instanceCmds,
           deviceCmdNames, deviceCmds, phase, raised, lastOp, nGenCmd,
           nDelivered, rw >>

genVars == << sf, outFile, cmds, globalCmds, instanceCmdNames, instanceCmds,
              deviceCmdNames, deviceCmds, phase, raised, lastOp, nGenCmd,
              nDelivered >>

cmdVars == << cmds, globalCmds, instanceCmdNames, instanceCmds,
              deviceCmdNames, deviceCmds, nGenCmd >>

\* The module name given to DGenerator.__init__.
moduleName == "gfx.bindings.vulkan.vk"

\* self.basicTypes, in insertion order.
basicTypes ==
    << << "uint8_t", "ubyte" >>, << "uint16_t", "ushort" >>,
       << "uint32_t", "uint" >>, << "uint64_t", "ulong" >>,
       << "int8_t", "byte" >>, << "int16_t", "short" >>,
       << "int32_t", "int" >>, << "int64_t", "long" >> >>

globalCmdNames ==
    { "vkGetInstanceProcAddr", "vkEnumerateInstanceExtensionProperties",
      "vkEnumerateInstanceLayerProperties", "vkCreateInstance" }

NoOp == [op |-> "", arg |-> ""]

NoRewrite == [param |-> NoElem, typeStr |-> ""]

\* DGenerator.__init__
Init ==
    /\ sf = NoSourceFile
    /\ outFile = << >>
    /\ cmds = << >>
    /\ globalCmds = << >>
    /\ instanceCmdNames = {}
    /\ instanceCmds = << >>
    /\ deviceCmdNames = {}
    /\ deviceCmds = << >>
    /\ phase = "constructed"
    /\ raised = ""
    /\ lastOp = NoOp
    /\ nGenCmd = 0
    /\ nDelivered = 0
    /\ rw = NoRewrite

\* initSect of beginFile
initSect(f, sect, comment) ==
    Emit(section_set(f, sect), << "", "// " \o comment, "" >>)

\* The file beginFile leaves in self.sf.
beginFileSf ==
    LET f1 == Emit(section_set(SourceFile, GLOBAL_DEF),
                << "/// Vulkan D bindings generated by vkdgen.py for Gfx-d",
                   "module " \o moduleName \o ";",
                   "",
                   "// Global definitions",
                   "",
                   "enum VK_DEFINE_HANDLE(string name) = " >>)
        f2 == indent_block(f1,
                << "\"struct \"~name~\"_handle; alias \"~name~\" = \"~name~\"_handle*;\";" >>)
        f3 == Emit(f2, << "", "version(X86_64) {" >>)
        f4 == indent_block(f3,
                << "enum VK_DEFINE_NON_DISPATCHABLE_HANDLE(string name) = VK_DEFINE_HANDLE!name;",
                   "enum VK_NULL_ND_HANDLE = null;" >>)
        f5 == Emit(f4, << "} else {" >>)
        f6 == indent_block(f5,
                << "enum VK_DEFINE_NON_DISPATCHABLE_HANDLE(string name) = \"alias \"~name~\" = ulong;\";",
                   "enum VK_NULL_ND_HANDLE = 0;" >>)
        f7 == Emit(f6, << "}" >>)
        f8 == Emit(initSect(f7, BASETYPE, "Basic types definition"),
                [i \in 1 .. Len(basicTypes) |->
                    "alias " \o basicTypes[i][1] \o " = "
                    \o basicTypes[i][2] \o ";"])
        f9 == indent(Emit(initSect(f8, FUNCPTR, "Fonction pointers"),
                          << "extern(C) {" >>))
    IN  initSect(initSect(initSect(initSect(initSect(f9,
            CONST, "Constants"),
            HANDLE, "Handles"),
            ENUM, "Enumerations"),
            STRUCT, "Structures"),
            CMD, "Commands")

\* What a handler leaves behind: the file, the exception it raised if any.
Finish(f, op, arg, endPhase) ==
    /\ sf' = [f EXCEPT !.raised = ""]
    /\ raised' = f.raised
    /\ phase' = IF f.raised = "" THEN endPhase ELSE phase
    /\ lastOp' = [op |-> op, arg |-> arg]

\* DGenerator.beginFile: the first run, or another run of reg.apiGen on the
\* same generator after an earlier one has ended.
beginFile ==
    /\ phase \in {"constructed", "finished"}
    /\ raised = ""
    /\ Finish(beginFileSf, "beginFile", "", "running")
    /\ UNCHANGED << outFile, cmdVars, nDelivered, rw >>

\* A delivery is taken while a run is open and no exception has ended it.
CanDeliver ==
    /\ phase = "running"
    /\ raised = ""
    /\ nDelivered < MaxDeliveries

\* re.match(r"^typedef (.+) \(VKAPI_PTR \*$", s); "$" also matches before
\* a newline that ends the text.
re_funcptr(s) ==
    LET e == IF EndsWith(s, "\n") THEN Len(s) - 1 ELSE Len(s)
        q == e - 12
    IN  IF /\ StartsWith(s, "typedef ")
           /\ q >= 10
           /\ SubSeq(s, q, e) = " (VKAPI_PTR *"
           /\ NoNewline(s, 9, q - 1)
        THEN [matched |-> TRUE, group |-> SubSeq(s, 9, q - 1)]
        ELSE NoMatch

\* elem.itertext() from the k-th child on: the non-empty texts and tails.
RECURSIVE ChildTexts(_, _)
ChildTexts(children, k) ==
    IF k > Len(children) THEN << >>
    ELSE (IF children[k].text # "" THEN << children[k].text >> ELSE << >>)
         \o (IF children[k].tail # "" THEN << children[k].tail >> ELSE << >>)
         \o ChildTexts(children, k + 1)

itertext(elem) ==
    (IF elem.text # "" THEN << elem.text >> ELSE << >>)
    \o ChildTexts(elem.children, 1)

\* s[n:] for n >= 0
DropFirst(s, n) == IF Len(s) <= n THEN SubSeq(s, 1, 0) ELSE SubSeq(s, n + 1, Len(s))

\* The loop over params.splitlines() of the funcpointer branch.  A line of
\* more than two tokens calls convertTypeConst, a name the module does not
\* define: the call raises NameError.
RECURSIVE concatParams(_, _)
concatParams(lines, i) ==
    IF i > Len(lines) THEN [raised |-> "", text |-> ""]
    ELSE LET lineSplit == Split(lines[i])
             rest      == concatParams(lines, i + 1)
         IN  IF Len(lineSplit) > 2
             THEN [raised |-> "NameError", text |-> ""]
             ELSE [raised |-> rest.raised,
                   text   |-> " " \o Join(lineSplit, " ") \o rest.text]

\* The funcpointer branch of genType.
genFuncPointer(f, typeinfo) ==
    LET m      == re_funcptr(typeinfo.elem.text)
        texts  == itertext(typeinfo.elem)
        params == DropFirst(Join(DropFirst(texts, 2), ""), 2)
        cp     == concatParams(SplitLines(params), 1)
    IN  IF ~m.matched THEN [f EXCEPT !.raised = "AttributeError"]
        ELSE IF params = "void);" \/ params = " void );"
        THEN sf_call(section_set(f, FUNCPTR),
                     "alias " \o typeinfo.name \o " = " \o m.group
                     \o " function(" \o ");")
        ELSE IF cp.raised # "" THEN [f EXCEPT !.raised = cp.raised]
        ELSE sf_call(section_set(f, FUNCPTR),
                     "alias " \o typeinfo.name \o " = " \o m.group
                     \o " function(" \o DropFirst(cp.text, 2))

\* member.find("name").text
NameOf(elem) ==
    LET k == CHOOSE k \in 1 .. Len(elem.children) :
                 /\ elem.children[k].tag = "name"
                 /\ \A j \in 1 .. k - 1 : elem.children[j].tag # "name"
    IN  elem.children[k].text

\* max(len(x)) over the sequence of strings, 0 when it is empty.
RECURSIVE MaxLenOf(_)
MaxLenOf(strs) ==
    IF strs = << >> THEN 0 ELSE Max(Len(Head(strs)), MaxLenOf(Tail(strs)))

\* DGenerator.genStruct
genStruct(f, typeinfo) ==
    LET members == [i \in 1 .. Len(typeinfo.elem.children) |->
                      << makeDParamType(typeinfo.elem.children[i]),
                         mapDName(NameOf(typeinfo.elem.children[i])) >>]
        maxLen  == MaxLenOf([i \in 1 .. Len(members) |-> members[i][1]])
        f1 == sf_call(section_set(f, STRUCT),
                      typeinfo.category \o " " \o typeinfo.name \o " {")
        f2 == indent_block(f1,
                [i \in 1 .. Len(members) |->
                    members[i][1]
                    \o Spaces(maxLen - Len(members[i][1]) + 1)
                    \o members[i][2] \o ";"])
    IN  sf_call(f2, "}")

\* The body of DGenerator.genType.
genTypeSf(f, typeinfo) ==
    IF typeinfo.category = "" THEN f
    ELSE IF typeinfo.category \in {"basetype", "bitmask"}
    THEN sf_call(section_set(f, BASETYPE),
                 "alias " \o typeinfo.name \o " = " \o typeinfo.type \o ";")
    ELSE IF typeinfo.category = "handle"
    THEN sf_call(section_set(f, HANDLE),
                 "mixin(" \o typeinfo.type \o "!\"" \o typeinfo.name \o "\");")
    ELSE IF typeinfo.category \in {"struct", "union"}
    THEN genStruct(f, typeinfo)
    ELSE IF typeinfo.category = "funcpointer"
    THEN genFuncPointer(f, typeinfo)
    ELSE f

genType(typeinfo) ==
    /\ CanDeliver
    /\ Finish(genTypeSf(sf, typeinfo), "genType", typeinfo, "running")
    /\ nDelivered' = nDelivered + 1
    /\ UNCHANGED << outFile, cmdVars, rw >>

\* DGenerator.genEnum
genEnum(enuminfo) ==
    /\ CanDeliver
    /\ Finish(sf_call(section_set(sf, CONST),
                "enum " \o enuminfo.name \o " = "
                \o Replace(Replace(enuminfo.strVal, "0ULL", "0uL"), "0U", "0u")
                \o ";"),
              "genEnum", enuminfo, "running")
    /\ nDelivered' = nDelivered + 1
    /\ UNCHANGED << outFile, cmdVars, rw >>

\* A mutation of GroupMaxLen: maxLen is assigned the length of each
\* member name in turn instead of the maximum.
GroupMaxLen_Last(members) ==
    IF members = << >> THEN 0 ELSE Len(members[Len(members)].name)

\* maxLen of genGroup
GroupMaxLen(members) ==
    MaxLenOf([i \in 1 .. Len(members) |-> members[i].name])

\* The body of DGenerator.genGroup.
genGroupSf(f, groupinfo) ==
    LET name    == groupinfo.name
        repStr  == IF EndsWith(name, "FlagBits") THEN " : VkFlags" ELSE ""
        members == groupinfo.members
        maxLen  == GroupMaxLen(members)
        f1 == sf_call(section_set(f, ENUM), "enum " \o name \o repStr \o " {")
        f2 == indent_block(f1,
                [i \in 1 .. Len(members) |->
                    members[i].name
                    \o Spaces(maxLen - Len(members[i].name))
                    \o " = " \o IntToStr(members[i].numVal) \o ","])
        f3 == sf_call(f2, "}")
        f4 == Emit(f3,
                [i \in 1 .. Len(members) |->
                    "enum " \o members[i].name
                    \o Spaces(maxLen - Len(members[i].name))
                    \o " = " \o name \o "." \o members[i].name \o ";"])
    IN  sf_call(f4, "")

genGroup(groupinfo) ==
    /\ CanDeliver
    /\ Finish(genGroupSf(sf, groupinfo), "genGroup", groupinfo, "running")
    /\ nDelivered' = nDelivered + 1
    /\ UNCHANGED << outFile, cmdVars, rw >>

\* DGenerator.Param and DGenerator.Command as genCmd builds them from
\* cmdinfo; id tells apart the Command objects of separate genCmd calls.
Command(cmdinfo, id) ==
    [id         |-> id,
     returnType |-> cmdinfo.type,
     name       |-> cmdinfo.name,
     params     |-> [i \in 1 .. Len(cmdinfo.params) |->
                        [typeStr |-> makeDParamType(cmdinfo.params[i]),
                         name    |-> NameOf(cmdinfo.params[i])]]]

\* The classification record of the generator.
Record ==
    [cmds |-> cmds, globalCmds |-> globalCmds,
     instanceCmdNames |-> instanceCmdNames, instanceCmds |-> instanceCmds,
     deviceCmdNames |-> deviceCmdNames, deviceCmds |-> deviceCmds]

\* A mutation of genCmdRecord: the test of the parameter is an "if" of its
\* own instead of the "elif" of the allow-list test.
genCmdRecord_IfNotElif(rec, cmd) ==
    LET r1 == [rec EXCEPT !.cmds = Append(@, cmd)]
        r2 == IF cmd.name \in globalCmdNames
              THEN [r1 EXCEPT !.globalCmds = Append(@, cmd)]
              ELSE r1
    IN  IF Len(cmd.params) # 0
           /\ cmd.params[1].name \in {"VkDevice", "VkQueue", "VkCommandBuffer"}
        THEN [r2 EXCEPT !.deviceCmds = Append(@, cmd),
                        !.deviceCmdNames = @ \cup {cmd.name}]
        ELSE [r2 EXCEPT !.instanceCmds = Append(@, cmd),
                        !.instanceCmdNames = @ \cup {cmd.name}]

\* The appends of DGenerator.genCmd.
genCmdRecord(rec, cmd) ==
    LET r1 == [rec EXCEPT !.cmds = Append(@, cmd)]
    IN  IF cmd.name \in globalCmdNames
        THEN [r1 EXCEPT !.globalCmds = Append(@, cmd)]
        ELSE IF Len(cmd.params) # 0
                /\ cmd.params[1].name \in {"VkDevice", "VkQueue", "VkCommandBuffer"}
        THEN [r1 EXCEPT !.deviceCmds = Append(@, cmd),
                        !.deviceCmdNames = @ \cup {cmd.name}]
        ELSE [r1 EXCEPT !.instanceCmds = Append(@, cmd),
                        !.instanceCmdNames = @ \cup {cmd.name}]

genCmd(cmdinfo) ==
    /\ CanDeliver
    /\ LET r == genCmdRecord(Record, Command(cmdinfo, nGenCmd + 1))
       IN  /\ cmds' = r.cmds
           /\ globalCmds' = r.globalCmds
           /\ instanceCmdNames' = r.instanceCmdNames
           /\ instanceCmds' = r.instanceCmds
           /\ deviceCmdNames' = r.deviceCmdNames
           /\ deviceCmds' = r.deviceCmds
    /\ nGenCmd' = nGenCmd + 1
    /\ nDelivered' = nDelivered + 1
    /\ lastOp' = [op |-> "genCmd", arg |-> cmdinfo]
    /\ UNCHANGED << sf, outFile, phase, raised, rw >>

\* fstLine of endFile
fstLine(cmd) ==
    "alias PFN_" \o cmd.name \o " = " \o cmd.returnType \o " function ("

\* maxLen of endFile, reset for each command
CmdMaxLen(cmd) ==
    MaxLenOf([i \in 1 .. Len(cmd.params) |-> cmd.params[i].typeStr])

\* The lines of a command of two or more parameters.
CmdParamTexts(cmd, maxLen) ==
    [i \in 1 .. Len(cmd.params) |->
        (IF i = 1 THEN fstLine(cmd) ELSE Spaces(Len(fstLine(cmd))))
        \o cmd.params[i].typeStr
        \o Spaces(maxLen - Len(cmd.params[i].typeStr))
        \o " " \o cmd.params[i].name
        \o (IF i = Len(cmd.params) THEN ");" ELSE ",")]

\* A mutation of CmdAliasTexts: the "continue" of the one-parameter case
\* is missing.
CmdAliasTexts_NoContinue(cmd) ==
    IF Len(cmd.params) = 0 THEN << fstLine(cmd) \o ");" >>
    ELSE (IF Len(cmd.params) = 1
          THEN << fstLine(cmd) \o cmd.params[1].typeStr \o " "
                  \o cmd.params[1].name \o ");" >>
          ELSE << >>)
         \o CmdParamTexts(cmd, CmdMaxLen(cmd))

\* A mutation of CmdAliasTexts: the spacer is left out.
CmdAliasTexts_NoSpacer(cmd) ==
    IF Len(cmd.params) = 0 THEN << fstLine(cmd) \o ");" >>
    ELSE IF Len(cmd.params) = 1
    THEN << fstLine(cmd) \o cmd.params[1].typeStr \o " "
            \o cmd.params[1].name \o ");" >>
    ELSE CmdParamTexts(cmd, 0)

\* The body of the loop of endFile over self.cmds: the lines of one command.
CmdAliasTexts(cmd) ==
    IF Len(cmd.params) = 0 THEN << fstLine(cmd) \o ");" >>
    ELSE IF Len(cmd.params) = 1
    THEN << fstLine(cmd) \o cmd.params[1].typeStr \o " "
            \o cmd.params[1].name \o ");" >>
    ELSE CmdParamTexts(cmd, CmdMaxLen(cmd))

\* The lines of the loop of endFile over the commands from the k-th on.
RECURSIVE AllAliasTexts(_, _)
AllAliasTexts(cs, k) ==
    IF k > Len(cs) THEN << >>
    ELSE CmdAliasTexts(cs[k]) \o AllAliasTexts(cs, k + 1)

\* The file endFile leaves in self.sf before writeOut.
endFileSf(f) ==
    LET f1 == sf_call(unindent(section_set(f, FUNCPTR)), "}")
        f2 == sf_call(section_set(f1, CMD), "extern(C) {")
        f3 == indent_block(f2, AllAliasTexts(cmds, 1))
    IN  sf_call(f3, "}")

\* DGenerator.endFile
endFile ==
    /\ phase = "running"
    /\ raised = ""
    /\ Finish(endFileSf(sf), "endFile", "", "finished")
    /\ outFile' = IF endFileSf(sf).raised = ""
                  THEN writeOut(endFileSf(sf))
                  ELSE outFile
    /\ UNCHANGED << cmdVars, nDelivered, rw >>

\* The registry drives one generator: beginFile, the entities of the
\* features in its traversal order, endFile.
Next ==
    \/ beginFile
    \/ \E typeinfo \in TypeInfos : genType(typeinfo)
    \/ \E enuminfo \in EnumInfos : genEnum(enuminfo)
    \/ \E groupinfo \in GroupInfos : genGroup(groupinfo)
    \/ \E cmdinfo \in CmdInfos : genCmd(cmdinfo)
    \/ endFile

Spec == Init /\ [][Next]_vars

(***************************************************************************)
(* The type rewriter on its own                                            *)
(***************************************************************************)

\* The type names the rewriter is applied to.
TypeNames == {"char", "void", "uint32_t", "VkAllocationCallbacks"}

\* The <param> elements given to makeDParamType: the text before the type,
\* the type name, and the text between the type and the name.
RewriteInputs ==
    { Elem(text, type, tail, "p", "") :
        text \in {"", "const ", "struct ", "const struct "},
        type \in TypeNames,
        tail \in {" ", "* ", "** ", "* const* ", "* const * ", " * ", "*"} }

\* One call of makeDParamType.
rewrite(param) ==
    /\ rw' = [param |-> param, typeStr |-> makeDParamType(param)]
    /\ UNCHANGED genVars

NextRewrite == \E param \in RewriteInputs : rewrite(param)

SpecRewrite == Init /\ [][NextRewrite]_vars

(***************************************************************************)
(* Properties                                                              *)
(***************************************************************************)

Range(seq) == {seq[i] : i \in DOMAIN seq}

Lines(s) == sf._sections[s].lines

\* The number of lines of the sections before s.
RECURSIVE SectOffset(_)
SectOffset(s) ==
    IF s <= GLOBAL_DEF THEN 0 ELSE SectOffset(s - 1) + Len(Lines(s - 1))

\* C1: after endFile the printed lines are the lines of the sections in the
\* declaration order of Sect, each section in the order its lines were
\* appended: the i-th line of section s is printed at the position that
\* follows all lines of the sections declared before s.
C1_WriteOutInSectOrder ==
    phase = "finished" =>
        /\ Len(outFile) = SectOffset(CMD + 1)
        /\ \A s \in Sect : \A i \in 1 .. Len(Lines(s)) :
               outFile[SectOffset(s) + i] = RStrip(Lines(s)[i])

\* A finished run in which lines were appended to BASETYPE and to ENUM by
\* deliveries, after beginFile had written the header of CMD.
C1_Witness ==
    /\ phase = "finished"
    /\ Len(Lines(BASETYPE)) > 3 + Len(basicTypes)
    /\ Len(Lines(ENUM)) > 3

Ids(seq) == {seq[i].id : i \in DOMAIN seq}

\* C2: every delivered Command is in exactly one of globalCmds, deviceCmds
\* and instanceCmds and exactly once in cmds, and the lengths add up to
\* the number of genCmd calls.
C2_ExactlyOneGroup ==
    /\ Ids(globalCmds) \cap Ids(deviceCmds) = {}
    /\ Ids(globalCmds) \cap Ids(instanceCmds) = {}
    /\ Ids(deviceCmds) \cap Ids(instanceCmds) = {}
    /\ Range(globalCmds) \cup Range(deviceCmds) \cup Range(instanceCmds)
           = Range(cmds)
    /\ Cardinality(Ids(cmds)) = Len(cmds)
    /\ Len(cmds) = Len(globalCmds) + Len(deviceCmds) + Len(instanceCmds)
    /\ Len(cmds) = nGenCmd

\* Commands were recorded in two different groups.
C2_Witness ==
    /\ Len(globalCmds) = 1
    /\ Len(deviceCmds) = 1

\* C3: a command outside the allow-list whose first parameter has one of
\* the three dispatchable types is recorded in the device group, whatever
\* the name of the parameter.
C3_FirstParamTypeDecides ==
    \A c \in Range(cmds) :
        ( /\ c.name \notin globalCmdNames
          /\ Len(c.params) >= 1
          /\ c.params[1].typeStr \in {"VkDevice", "VkQueue", "VkCommandBuffer"} )
        => /\ c \in Range(deviceCmds)
           /\ c.name \in deviceCmdNames
           /\ c \notin Range(instanceCmds)

\* The positions of the lines of CMD that open an alias block.
AliasStarts ==
    {p \in 1 .. Len(Lines(CMD)) : StartsWith(Lines(CMD)[p], "    alias PFN_")}

\* The position of the k-th line that opens an alias block, or of the
\* closing line when there are fewer than k.
KthStart(k) ==
    IF k > Cardinality(AliasStarts) THEN Len(Lines(CMD))
    ELSE CHOOSE p \in AliasStarts :
             Cardinality({q \in AliasStarts : q <= p}) = k

\* C4: after endFile the CMD section holds, between "extern(C) {" and "}",
\* one alias block per command of cmds, in the order of cmds; the block of
\* a command of 0 or 1 parameters is one line (ending in "();" for none),
\* the block of a command of n >= 2 parameters is n lines, one parameter
\* each.
C4_OneAliasBlockPerCommand ==
    phase = "finished" =>
        LET L == Lines(CMD)
        IN  /\ L[4] = "extern(C) {"
            /\ L[Len(L)] = "}"
            /\ Cardinality(AliasStarts) = Len(cmds)
            /\ KthStart(1) = IF cmds = << >> THEN Len(L) ELSE 5
            /\ \A k \in 1 .. Len(cmds) :
                 LET c == cmds[k]
                     n == Len(c.params)
                     p == KthStart(k)
                 IN  /\ StartsWith(L[p], "    alias PFN_" \o c.name \o " = ")
                     /\ KthStart(k + 1) - p = IF n <= 1 THEN 1 ELSE n
                     /\ n = 0 => EndsWith(L[p], "();")
                     /\ \A i \in 1 .. n :
                          EndsWith(L[p + i - 1],
                                   " " \o c.params[i].name
                                   \o (IF i = n THEN ");" ELSE ","))

\* A finished run with a command of several parameters followed by a
\* command of one parameter.
C4_Witness ==
    /\ phase = "finished"
    /\ Len(cmds) = 2
    /\ Len(cmds[1].params) >= 2
    /\ Len(cmds[2].params) = 1

\* The width of the widest parameter type of a command.
TypeWidth(c) ==
    IF c.params = << >> THEN 0
    ELSE CHOOSE w \in {Len(c.params[i].typeStr) : i \in DOMAIN c.params} :
             \A i \in DOMAIN c.params : Len(c.params[i].typeStr) <= w

\* The width of the widest parameter type of all commands.
AllTypeWidth ==
    IF cmds = << >> THEN 0
    ELSE CHOOSE w \in {TypeWidth(c) : c \in Range(cmds)} :
             \A c \in Range(cmds) : TypeWidth(c) <= w

\* In the block of the k-th command, of two or more parameters, every line
\* has the type padded with spaces to width w, then a space and the name.
BlockPaddedTo(k, w) ==
    LET c   == cmds[k]
        col == Len("    alias PFN_" \o c.name \o " = " \o c.returnType
                   \o " function (")
    IN  \A i \in 1 .. Len(c.params) :
            StartsWithAt(Lines(CMD)[KthStart(k) + i - 1], col + 1,
                         c.params[i].typeStr
                         \o Spaces(w - Len(c.params[i].typeStr))
                         \o " " \o c.params[i].name)

\* C9 as stated: every line of a command of several parameters has its type
\* padded to the width of the widest parameter type of all commands.
C9_PaddedAcrossAllCommands ==
    phase = "finished" =>
        \A k \in 1 .. Len(cmds) :
            Len(cmds[k].params) >= 2 => BlockPaddedTo(k, AllTypeWidth)

\* C9 amended: every line of a command of several parameters has its type
\* padded to the width of the widest parameter type of that command.
C9_PaddedPerCommand ==
    phase = "finished" =>
        \A k \in 1 .. Len(cmds) :
            Len(cmds[k].params) >= 2 => BlockPaddedTo(k, TypeWidth(cmds[k]))

\* A finished run with two commands of several parameters whose widest
\* types differ, one of them with types of different widths.
C9_Witness ==
    /\ phase = "finished"
    /\ Len(cmds) = 2
    /\ Len(cmds[1].params) >= 2
    /\ Len(cmds[2].params) >= 2
    /\ TypeWidth(cmds[1]) # TypeWidth(cmds[2])
    /\ Len(cmds[1].params[1].typeStr) # Len(cmds[1].params[2].typeStr)

\* The text of the element up to its name: what the schema declares as
\* the type of the parameter.
RawType(param) ==
    param.text \o param.children[1].text \o param.children[1].tail

\* s without its whitespace.
RECURSIVE Squeeze(_)
Squeeze(s) ==
    IF Len(s) = 0 THEN s
    ELSE (IF IsSpace(At(s, 1)) THEN SubSeq(s, 1, 0) ELSE At(s, 1))
         \o Squeeze(SubSeq(s, 2, Len(s)))

\* "const" does not occur in s.
NoConst(s) == \A i \in 1 .. Len(s) : ~StartsWithAt(s, i, "const")

\* C5: for every type name X, "const X*" is rewritten to "const(X)*",
\* "const X* const*" to "const(X*)*", and "X" or "X*" without const is
\* left as it is but for whitespace.
C5_ConstRewrite ==
    \A X \in IF rw = NoRewrite THEN {} ELSE TypeNames :
        LET raw == Strip(RawType(rw.param))
        IN  /\ raw = "const " \o X \o "*" => rw.typeStr = "const(" \o X \o ")*"
            /\ raw = "const " \o X \o "* const*"
                   => rw.typeStr = "const(" \o X \o "*)*"
            /\ raw \in {X, X \o "*"} => rw.typeStr = raw
            /\ (NoConst(raw) /\ Squeeze(raw) \in {X, X \o "*"})
                   => Squeeze(rw.typeStr) = Squeeze(raw)

\* The rewriter was applied to a double-indirection const pointer.
C5_Witness ==
    /\ rw # NoRewrite
    /\ Strip(RawType(rw.param)) = "const char* const*"
    /\ rw.typeStr = "const(char*)*"

\* params of the funcpointer branch is the all-void parameter list.
IsVoidList(typeinfo) ==
    DropFirst(Join(DropFirst(itertext(typeinfo.elem), 2), ""), 2)
        \in {"void);", " void );"}

\* C6: every delivery of a funcpointer to genType completes without an
\* exception and appends one line to FUNCPTR and none to another section;
\* the line of an all-void parameter list ends with the empty list.
C6_FuncPointerAppendsOneLine ==
    [][ ( /\ lastOp'.op = "genType"
          /\ lastOp'.arg.category = "funcpointer" )
        => /\ raised' = ""
           /\ \A s \in Sect :
                Len(sf'._sections[s].lines)
                    = Len(Lines(s)) + (IF s = FUNCPTR THEN 1 ELSE 0)
           /\ StartsWith(sf'._sections[FUNCPTR].lines[Len(Lines(FUNCPTR)) + 1],
                         "    alias " \o lastOp'.arg.name \o " = ")
           /\ IsVoidList(lastOp'.arg)
                => EndsWith(sf'._sections[FUNCPTR].lines[Len(Lines(FUNCPTR)) + 1],
                            " function();") ]_vars

\* C7: the indentation depth of every section is never negative and the
\* assertion of unindent never fails; while a run is open only FUNCPTR is
\* indented, by the one level beginFile opened, and after endFile every
\* section is back at depth 0.
C7_IndentBalanced ==
    /\ raised # "AssertionError"
    /\ phase # "constructed" =>
         \A s \in Sect : sf._sections[s].indent >= 0
    /\ (phase = "running" /\ raised = "") =>
         \A s \in Sect :
             sf._sections[s].indent = IF s = FUNCPTR THEN 1 ELSE 0
    /\ phase = "finished" =>
         \A s \in Sect : sf._sections[s].indent = 0

\* A finished run in which a struct and an enumeration group were emitted,
\* each with an indented block.
C7_Witness ==
    /\ phase = "finished"
    /\ Len(Lines(STRUCT)) > 3
    /\ Len(Lines(ENUM)) > 3
    /\ Lines(FUNCPTR)[Len(Lines(FUNCPTR))] = "}"

\* C8: when beginFile has run, the classification record holds nothing of
\* an earlier run.
C8_FreshRecordAtBeginFile ==
    lastOp.op = "beginFile" =>
        /\ cmds = << >>
        /\ globalCmds = << >>
        /\ deviceCmds = << >>
        /\ instanceCmds = << >>
        /\ deviceCmdNames = {}
        /\ instanceCmdNames = {}

\* The longest member name of a group.
NameWidth(members) ==
    IF members = << >> THEN 0
    ELSE CHOOSE w \in {Len(members[i].name) : i \in DOMAIN members} :
             \A i \in DOMAIN members : Len(members[i].name) <= w

\* C10: the lines genGroup appended to ENUM are the opening line, one line
\* per member of the group in schema order, the closing line, one alias
\* line per member in schema order and an empty line; in every member
\* line and alias line the name is padded with spaces to the length of the
\* longest member name of the group.
C10_GroupMembers ==
    lastOp.op = "genGroup" =>
        LET g  == lastOp.arg
            n  == Len(g.members)
            w  == NameWidth(g.members)
            L  == Lines(ENUM)
            b  == Len(L) - (2 * n + 3)
        IN  /\ b >= 3
            /\ StartsWith(L[b + 1], "enum " \o g.name)
            /\ EndsWith(L[b + 1], " {")
            /\ L[b + n + 2] = "}"
            /\ L[Len(L)] = ""
            /\ \A i \in 1 .. n :
                 LET m == g.members[i].name
                 IN  /\ StartsWith(L[b + 1 + i],
                                   "    " \o m \o Spaces(w - Len(m)) \o " = ")
                     /\ Len(L[b + 1 + i]) > 4 + w
                     /\ L[b + n + 2 + i] =
                            "enum " \o m \o Spaces(w - Len(m)) \o " = "
                            \o g.name \o "." \o m \o ";"

\* A group of three members was delivered whose longest name is the first.
C10_Witness ==
    /\ lastOp.op = "genGroup"
    /\ Len(lastOp.arg.members) = 3
    /\ Len(lastOp.arg.members[1].name) > Len(lastOp.arg.members[3].name)
    /\ Len(Lines(ENUM)) = 3 + 9

====
